---- MODULE Spec2Model ----
(***************************************************************************)
(* Model of src/obsFolderLister.ts: the breadth-first listers              *)
(* listFilesInObsFolder and listFilesByAdapterPaths, and the allow-list    *)
(* root resolver getHiddenAllowListRoots with its literal-prefix scanner.  *)
(* Strings are TLA+ strings handled character by character.               *)
(***************************************************************************)
EXTENDS Integers, Sequences, FiniteSets, TLC

(***************************************************************************)
(* Bounds of the model.                                                    *)
(***************************************************************************)
MaxPatLen == 3
MaxPatterns == 2
MaxFaults == 2
MaxRuns == 2
MaxFetched == 30

(***************************************************************************)
(* JavaScript string primitives used by the source.                        *)
(***************************************************************************)
charAt(s, i) == SubSeq(s, i + 1, i + 1)

slice(s, n) == SubSeq(s, n + 1, Len(s))

startsWith(s, p) == Len(s) >= Len(p) /\ SubSeq(s, 1, Len(p)) = p

endsWith(s, p) == Len(s) >= Len(p) /\ SubSeq(s, Len(s) - Len(p) + 1, Len(s)) = p

includes(s, p) == \E i \in 0..(Len(s) - Len(p)) : SubSeq(s, i + 1, i + Len(p)) = p

WhiteSpace == {" ", "\t", "\n", "\r"}

RECURSIVE trimStart(_)
trimStart(s) ==
  IF Len(s) > 0 /\ charAt(s, 0) \in WhiteSpace THEN trimStart(slice(s, 1)) ELSE s

RECURSIVE trimEnd(_)
trimEnd(s) ==
  IF Len(s) > 0 /\ charAt(s, Len(s) - 1) \in WhiteSpace
  THEN trimEnd(SubSeq(s, 1, Len(s) - 1))
  ELSE s

trim(s) == trimEnd(trimStart(s))

RECURSIVE splitFrom(_, _, _)
splitFrom(s, i, cur) ==
  IF i >= Len(s) THEN <<cur>>
  ELSE IF charAt(s, i) = "/" THEN <<cur>> \o splitFrom(s, i + 1, "")
  ELSE splitFrom(s, i + 1, cur \o charAt(s, i))

split(s) == splitFrom(s, 0, "")

\* Array.from(new Set(xs)): first occurrences, in order.
RECURSIVE uniqueInOrder(_, _)
uniqueInOrder(xs, acc) ==
  IF xs = <<>> THEN acc
  ELSE IF \E k \in 1..Len(acc) : acc[k] = Head(xs)
       THEN uniqueInOrder(Tail(xs), acc)
       ELSE uniqueInOrder(Tail(xs), Append(acc, Head(xs)))

(***************************************************************************)
(* The literal-prefix scanner and the allow-list root resolver.            *)
(***************************************************************************)
isRegexMetaChar(ch) == includes(".+*?^$()[]{}|\\", ch)

RECURSIVE scanLiteralNoEscape(_, _, _, _)
scanLiteralNoEscape(s, i, out, escaped) ==
  IF i >= Len(s) THEN out
  ELSE IF isRegexMetaChar(charAt(s, i)) THEN out
  ELSE scanLiteralNoEscape(s, i + 1, out \o charAt(s, i), FALSE)

RECURSIVE scanLiteral(_, _, _, _)
scanLiteral(s, i, out, escaped) ==
  IF i >= Len(s) THEN out
  ELSE LET ch == charAt(s, i) IN
       IF escaped THEN scanLiteral(s, i + 1, out \o ch, FALSE)
       ELSE IF ch = "\\" THEN scanLiteral(s, i + 1, out, TRUE)
       ELSE IF isRegexMetaChar(ch) THEN out
       ELSE scanLiteral(s, i + 1, out \o ch, FALSE)

extractLiteralPrefix(pattern) ==
  LET s0 == trim(pattern)
      s1 == IF startsWith(s0, "^") THEN slice(s0, 1) ELSE s0
      s == IF startsWith(s1, "./") THEN slice(s1, 2) ELSE s1
      out == IF startsWith(s, "\\.") \/ startsWith(s, ".") THEN "." ELSE ""
      startIndex == IF startsWith(s, "\\.") THEN 2
                    ELSE IF startsWith(s, ".") THEN 1 ELSE 0
  IN scanLiteral(s, startIndex, out, FALSE)

isHiddenPathPrefixNoSegments(p) == startsWith(p, ".")

isHiddenPathPrefix(p) ==
  \/ startsWith(p, ".")
  \/ \E k \in 1..Len(split(p)) : startsWith(split(p)[k], ".")

prefixIsKeptLonger(prefix) == Len(prefix) > 2 /\ isHiddenPathPrefix(prefix)

prefixIsKept(prefix) == Len(prefix) > 1 /\ isHiddenPathPrefix(prefix)

RECURSIVE collectRoots(_, _)
collectRoots(paths, roots) ==
  IF paths = <<>> THEN roots
  ELSE LET trimmed == trim(Head(paths))
           prefix == extractLiteralPrefix(trimmed)
       IN IF trimmed = "" THEN collectRoots(Tail(paths), roots)
          ELSE IF prefixIsKept(prefix)
               THEN collectRoots(Tail(paths), Append(roots, prefix))
               ELSE collectRoots(Tail(paths), roots)

\* onlyAllowPaths is [nullish, items]: nullish models an undefined argument.
getHiddenAllowListRoots(onlyAllowPaths) ==
  uniqueInOrder(
    collectRoots(IF onlyAllowPaths.nullish THEN <<>> ELSE onlyAllowPaths.items, <<>>),
    <<>>)

(***************************************************************************)
(* The storage handle: stat outcomes (through statFix) and child listings. *)
(***************************************************************************)
CHUNK_SIZE == 10

Num(n) == [tag |-> "number", n |-> n]

MtimeUndefined == [tag |-> "undefined", n |-> 0]

MtimeNull == [tag |-> "null", n |-> 0]

StatValue(type, mtime, size) ==
  [kind |-> "value", type |-> type, mtime |-> mtime, size |-> size]

StatNull == [kind |-> "null", type |-> "", mtime |-> MtimeUndefined, size |-> 0]

StatThrows == [kind |-> "throws", type |-> "", mtime |-> MtimeUndefined, size |-> 0]

ListValue(folders, files) == [kind |-> "value", folders |-> folders, files |-> files]

ListThrows == [kind |-> "throws", folders |-> <<>>, files |-> <<>>]

\* In a looping vault the folder c holds a link l to itself: c, c/l, c/l/l, ...
\* are folders, each holding the folder x/l and the file x/bookmarks.json.
IsLoopFolder(x) ==
  /\ Len(x) % 2 = 1
  /\ SubSeq(x, 1, 1) = "c"
  /\ \A k \in 1..((Len(x) - 1) \div 2) : SubSeq(x, 2 * k, 2 * k + 1) = "/l"

IsLoopFile(x) ==
  endsWith(x, "/bookmarks.json") /\ IsLoopFolder(SubSeq(x, 1, Len(x) - 15))

\* statFix(vault, x): the metadata of x, null when there is none, or a throw.
statFix(v, x) ==
  IF x \in DOMAIN v.stat THEN v.stat[x]
  ELSE IF v.looping /\ IsLoopFolder(x) THEN StatValue("folder", Num(7), 0)
  ELSE IF v.looping /\ IsLoopFile(x) THEN StatValue("file", Num(7), 1)
  ELSE StatNull

\* vault.adapter.list(x): the child folders and files of x, or a throw.
adapterList(v, x) ==
  IF x \in DOMAIN v.list THEN v.list[x]
  ELSE IF v.looping /\ IsLoopFolder(x)
       THEN ListValue(<<x \o "/l">>, <<x \o "/bookmarks.json">>)
  ELSE ListThrows

isSpecialFolderNameToSkip(x, more) ==
  \E k \in 1..Len(more) : x = more[k] \/ endsWith(x, "/" \o more[k])

(***************************************************************************)
(* Helpers of the listers.                                                 *)
(***************************************************************************)
isPluginDirItself(x, pluginId) ==
  \/ x = pluginId
  \/ x = pluginId \o "/"
  \/ endsWith(x, "/" \o pluginId)
  \/ endsWith(x, "/" \o pluginId \o "/")

reqFiles == <<"data.json", "main.js", "manifest.json", ".gitignore", "styles.css">>

isLikelyPluginSubFiles(x) ==
  \E k \in 1..Len(reqFiles) : x = reqFiles[k] \/ endsWith(x, "/" \o reqFiles[k])

chunkWhole(items, size) == IF items = <<>> THEN <<>> ELSE <<items>>

RECURSIVE chunk(_, _)
chunk(items, size) ==
  IF items = <<>> THEN <<>>
  ELSE IF Len(items) <= size THEN <<items>>
  ELSE <<SubSeq(items, 1, size)>> \o chunk(SubSeq(items, size + 1, Len(items)), size)

entityKeyNoSlash(x, isFolder) == x

entityKey(x, isFolder) == IF isFolder THEN x \o "/" ELSE x

Entity(x, statRes) ==
  LET isFolder == statRes.type = "folder" IN
  [key |-> entityKey(x, isFolder), keyRaw |-> entityKey(x, isFolder),
   mtimeCli |-> statRes.mtime, mtimeSvr |-> statRes.mtime,
   size |-> statRes.size, sizeRaw |-> statRes.size]

NoChildren == [defined |-> FALSE, folders |-> <<>>, files |-> <<>>]

Children(l) == [defined |-> TRUE, folders |-> l.folders, files |-> l.files]

\* What an async callback of singleChunk.map resolves to.
Fetched(x, statRes, children) ==
  [undef |-> FALSE, itself |-> Entity(x, statRes), children |-> children]

FetchedUndefined ==
  [undef |-> TRUE, itself |-> Entity("", StatNull), children |-> NoChildren]

\* States of the promise of one callback.
AwaitStat == [state |-> "stat", statRes |-> StatNull, error |-> "", value |-> FetchedUndefined]

AwaitList(statRes) ==
  [state |-> "list", statRes |-> statRes, error |-> "", value |-> FetchedUndefined]

Fulfilled(v) == [state |-> "fulfilled", statRes |-> StatNull, error |-> "", value |-> v]

Rejected(e) == [state |-> "rejected", statRes |-> StatNull, error |-> e, value |-> FetchedUndefined]

mtimeIsUnusableIgnoringZero(m) == m.tag = "undefined" \/ m.tag = "null"

mtimeIsUnusable(m) ==
  m.tag = "undefined" \/ m.tag = "null" \/ (m.tag = "number" /\ m.n = 0)

mtimeError(configDir, x) ==
  "File in Obsidian " \o configDir \o " has last modified time 0: " \o x
    \o ", don't know how to deal with it."

\* listFilesInObsFolder, the callback once statFix has settled.
configAfterStatTolerant(configDir, x, s) ==
  IF s.kind = "throws" THEN Rejected("statFix: " \o x)
  ELSE IF s.kind = "null" THEN Fulfilled(FetchedUndefined)
  ELSE IF s.type = "folder" THEN AwaitList(s)
  ELSE IF mtimeIsUnusable(s.mtime) THEN Rejected(mtimeError(configDir, x))
  ELSE Fulfilled(Fetched(x, s, NoChildren))

configAfterStat(configDir, x, s) ==
  IF s.kind = "throws" THEN Rejected("statFix: " \o x)
  ELSE IF s.kind = "null"
       THEN Rejected("something goes wrong while listing hidden folder")
  ELSE IF s.type = "folder" THEN AwaitList(s)
  ELSE IF mtimeIsUnusable(s.mtime) THEN Rejected(mtimeError(configDir, x))
  ELSE Fulfilled(Fetched(x, s, NoChildren))

\* listFilesInObsFolder, the callback once vault.adapter.list has settled.
configAfterList(configDir, x, s, l) ==
  IF l.kind = "throws" THEN Rejected("adapter.list: " \o x)
  ELSE Fulfilled(Fetched(x, s, Children(l)))

rootsAfterStatDropping(x, s) ==
  IF s.kind = "throws" THEN Fulfilled(FetchedUndefined)
  ELSE IF s.kind = "null" THEN Rejected("TypeError: statRes.type of " \o x)
  ELSE IF s.type = "folder" THEN AwaitList(s)
  ELSE IF mtimeIsUnusable(s.mtime) THEN Fulfilled(FetchedUndefined)
  ELSE Fulfilled(Fetched(x, s, NoChildren))

\* listFilesByAdapterPaths, the callback once statFix has settled.
rootsAfterStat(x, s) ==
  IF s.kind = "throws" THEN Fulfilled(FetchedUndefined)
  ELSE IF s.kind = "null" THEN Rejected("TypeError: statRes.type of " \o x)
  ELSE IF s.type = "folder" THEN AwaitList(s)
  ELSE Fulfilled(Fetched(x, s, NoChildren))

\* listFilesByAdapterPaths, the callback once vault.adapter.list has settled.
rootsAfterList(x, s, l) ==
  IF l.kind = "throws" THEN Rejected("adapter.list: " \o x)
  ELSE Fulfilled(Fetched(x, s, Children(l)))

\* Promise.all: the value of the k-th promise is the k-th element of r2.
EmptySlot == [set |-> FALSE, value |-> FetchedUndefined]

FullSlot(v) == [set |-> TRUE, value |-> v]

storeInArrivalOrder(vals, k, v) ==
  LET free == {j \in 1..Len(vals) : ~vals[j].set}
      first == CHOOSE j \in free : \A i \in free : j <= i
  IN [vals EXCEPT ![first] = FullSlot(v)]

storeValue(vals, k, v) == [vals EXCEPT ![k] = FullSlot(v)]

keepChildIgnoringReserved(name, isInsideSelfPlugin) ==
  ~(isInsideSelfPlugin /\ ~isLikelyPluginSubFiles(name))

\* The two skip tests applied to each child name before q.push.
keepChild(name, isInsideSelfPlugin) ==
  /\ ~isSpecialFolderNameToSkip(name, <<"workspace", "workspace.json">>)
  /\ ~(isInsideSelfPlugin /\ ~isLikelyPluginSubFiles(name))

\* for (const iter of r2) of listFilesInObsFolder; m is [contents, q].
RECURSIVE mergeConfig(_, _, _)
mergeConfig(r2, m, pluginId) ==
  IF r2 = <<>> THEN m
  ELSE LET iter == Head(r2)
           isInsideSelfPlugin == isPluginDirItself(iter.itself.key, pluginId)
           Keep(name) == keepChild(name, isInsideSelfPlugin)
           pushed == IF iter.children.defined
                     THEN SelectSeq(iter.children.folders, Keep)
                            \o SelectSeq(iter.children.files, Keep)
                     ELSE <<>>
       IN mergeConfig(Tail(r2),
                      [contents |-> Append(m.contents, iter.itself), q |-> m.q \o pushed],
                      pluginId)

RECURSIVE mergeRootsFront(_, _)
mergeRootsFront(r2, m) ==
  IF r2 = <<>> THEN m
  ELSE LET iter == Head(r2) IN
       IF iter.undef THEN mergeRootsFront(Tail(r2), m)
       ELSE mergeRootsFront(Tail(r2),
              [contents |-> Append(m.contents, iter.itself),
               q |-> (IF iter.children.defined
                      THEN iter.children.folders \o iter.children.files
                      ELSE <<>>) \o m.q])

RECURSIVE mergeRootsFiltered(_, _)
mergeRootsFiltered(r2, m) ==
  IF r2 = <<>> THEN m
  ELSE LET iter == Head(r2)
           Keep(name) == keepChild(name, isPluginDirItself(iter.itself.key, "rs"))
       IN IF iter.undef THEN mergeRootsFiltered(Tail(r2), m)
          ELSE mergeRootsFiltered(Tail(r2),
                 [contents |-> Append(m.contents, iter.itself),
                  q |-> m.q \o (IF iter.children.defined
                                THEN SelectSeq(iter.children.folders \o iter.children.files, Keep)
                                ELSE <<>>)])

\* for (const iter of r2) of listFilesByAdapterPaths; m is [contents, q].
RECURSIVE mergeRoots(_, _)
mergeRoots(r2, m) ==
  IF r2 = <<>> THEN m
  ELSE LET iter == Head(r2) IN
       IF iter.undef THEN mergeRoots(Tail(r2), m)
       ELSE mergeRoots(Tail(r2),
              [contents |-> Append(m.contents, iter.itself),
               q |-> m.q \o (IF iter.children.defined
                             THEN iter.children.folders \o iter.children.files
                             ELSE <<>>)])

postFilterNone(cs, configDir, bookmarksOnly) == cs

\* The final filter of listFilesInObsFolder.
postFilter(cs, configDir, bookmarksOnly) ==
  LET IsWanted(e) == e.key = configDir \o "/" \/ e.key = configDir \o "/bookmarks.json"
  IN IF bookmarksOnly THEN SelectSeq(cs, IsWanted) ELSE cs

\* Array.from(new Set(roots)).map(trim).filter(non-empty)
RECURSIVE mapTrim(_)
mapTrim(xs) == IF xs = <<>> THEN <<>> ELSE <<trim(Head(xs))>> \o mapTrim(Tail(xs))

uniqueRoots(roots) ==
  LET NonEmpty(x) == x # "" IN SelectSeq(mapTrim(uniqueInOrder(roots, <<>>)), NonEmpty)

(***************************************************************************)
(* Inputs of the resolver.                                                 *)
(***************************************************************************)
PatternAlphabet == {".", "\\", "/", "a", "^", "*", " "}

RECURSIVE StringsUpTo(_)
StringsUpTo(n) ==
  IF n = 0 THEN {""}
  ELSE LET S == StringsUpTo(n - 1) IN S \cup {s \o c : s \in S, c \in PatternAlphabet}

NamedPatterns ==
  {"^\\.foo/bar.*", "plainname", ".x", ".", "foo/\\.bar", " ^./.git/hooks ", "   ",
   "\\.foo/bar", "^\\.x\\*y[0-9]"}

RECURSIVE SeqsUpTo(_, _)
SeqsUpTo(S, n) ==
  IF n = 0 THEN {<<>>}
  ELSE LET T == SeqsUpTo(S, n - 1) IN T \cup {Append(t, x) : t \in T, x \in S}

PrefixInputs == StringsUpTo(MaxPatLen + 1) \cup NamedPatterns

AllowInputs ==
  {[nullish |-> TRUE, items |-> <<>>]}
    \cup {[nullish |-> FALSE, items |-> t] : t \in SeqsUpTo(NamedPatterns, MaxPatterns)}
    \cup {[nullish |-> FALSE, items |-> <<p>>] : p \in StringsUpTo(MaxPatLen)}

(***************************************************************************)
(* Vaults: a fixed tree of paths, a variant, and at most MaxFaults faults. *)
(***************************************************************************)
Node(path, type, folders, files) ==
  [path |-> path, type |-> type, folders |-> folders, files |-> files]

\* The folder w holds one file per character of WideNames: more than two chunks.
WideNames == "abcdefghijklmnopqrstu"

WideFiles == [i \in 1..Len(WideNames) |-> "w/" \o charAt(WideNames, i - 1)]

WideTree ==
  {Node("w", "folder", <<>>, WideFiles)}
    \cup {Node(WideFiles[i], "file", <<>>, <<>>) : i \in 1..Len(WideFiles)}

\* nested: the plugin directory holds a folder that is named like a known file.
Tree(nested) ==
  {Node(".o", "folder", <<".o/p", ".o/rs", ".o/workspace">>, <<".o/bookmarks.json">>),
   Node(".o/bookmarks.json", "file", <<>>, <<>>),
   Node(".o/workspace", "folder", <<>>, <<>>),
   Node(".o/p", "folder", <<".o/p/d">>, <<".o/p/workspace.json">>),
   Node(".o/p/d", "folder", <<>>, <<".o/p/d/f">>),
   Node(".o/p/d/f", "file", <<>>, <<>>),
   Node(".o/p/workspace.json", "file", <<>>, <<>>),
   Node(".o/rs", "folder",
        IF nested THEN <<".o/rs/data.json">> ELSE <<>>,
        IF nested THEN <<".o/rs/secret.db">> ELSE <<".o/rs/data.json", ".o/rs/secret.db">>),
   Node(".o/rs/data.json", IF nested THEN "folder" ELSE "file", <<>>,
        IF nested THEN <<".o/rs/data.json/secret.db">> ELSE <<>>),
   Node(".o/rs/secret.db", "file", <<>>, <<>>),
   Node(".o/rs/data.json/secret.db", "file", <<>>, <<>>),
   Node("workspace", "folder", <<>>, <<"workspace/a">>),
   Node("workspace/a", "file", <<>>, <<>>),
   Node(".f/", "file", <<>>, <<>>)}
    \cup WideTree

Paths == {n.path : n \in Tree(TRUE)}

NodeAt(nested, x) == CHOOSE n \in Tree(nested) : n.path = x

FaultKinds == {"statNull", "statThrows", "mtimeZero", "mtimeUndefined", "mtimeNull", "listThrows"}

FaultPaths == {".o", ".o/bookmarks.json", ".o/p", ".o/rs/data.json", ".o/p/d/f"}

Faults == [path : FaultPaths, kind : FaultKinds]

RECURSIVE FaultSetsUpTo(_)
FaultSetsUpTo(n) ==
  IF n = 0 THEN {{}}
  ELSE LET S == FaultSetsUpTo(n - 1)
       IN S \cup UNION {{F \cup {f} : f \in {g \in Faults : \A h \in F : h.path # g.path}} :
                          F \in S}

FaultSets == FaultSetsUpTo(MaxFaults)

FaultOf(F, x) ==
  IF \E f \in F : f.path = x THEN (CHOOSE f \in F : f.path = x).kind ELSE "none"

VaultStat(nested, F, x) ==
  LET n == NodeAt(nested, x)
      k == FaultOf(F, x)
      size == IF n.type = "folder" THEN 0 ELSE 1
  IN IF k = "statNull" THEN StatNull
     ELSE IF k = "statThrows" THEN StatThrows
     ELSE IF k = "mtimeZero" THEN StatValue(n.type, Num(0), size)
     ELSE IF k = "mtimeUndefined" THEN StatValue(n.type, MtimeUndefined, size)
     ELSE IF k = "mtimeNull" THEN StatValue(n.type, MtimeNull, size)
     ELSE StatValue(n.type, Num(7), size)

VaultList(nested, F, x) ==
  LET n == NodeAt(nested, x) IN
  IF FaultOf(F, x) = "listThrows" \/ n.type # "folder" THEN ListThrows
  ELSE ListValue(n.folders, n.files)

Vault(nested, F) ==
  [stat |-> [x \in Paths |-> VaultStat(nested, F, x)],
   list |-> [x \in Paths |-> VaultList(nested, F, x)],
   looping |-> FALSE]

Vaults == {Vault(nested, F) : nested \in BOOLEAN, F \in FaultSets}

LoopVault == [Vault(FALSE, {}) EXCEPT !.looping = TRUE]

(***************************************************************************)
(* Calls.                                                                  *)
(***************************************************************************)
ConfigCall(configDir, pluginId, bookmarksOnly) ==
  [fn |-> "listFilesInObsFolder", configDir |-> configDir, pluginId |-> pluginId,
   bookmarksOnly |-> bookmarksOnly, roots |-> <<>>]

RootsCall(roots) ==
  [fn |-> "listFilesByAdapterPaths", configDir |-> "", pluginId |-> "",
   bookmarksOnly |-> FALSE, roots |-> roots]

Calls ==
  {ConfigCall(".o", "rs", b) : b \in BOOLEAN}
    \cup {ConfigCall("workspace", "rs", FALSE)}
    \cup {RootsCall(rs) : rs \in {<<".o">>, <<".o/rs", ".o/p">>, <<" .o/p", ".o/p", "  ">>,
                                  <<".f/", ".o/p/d">>, <<>>}}

WideCalls == {ConfigCall("w", "rs", FALSE), RootsCall(<<"w">>)}

LoopCalls == {ConfigCall("c", "rs", b) : b \in BOOLEAN} \cup {RootsCall(<<"c">>)}

NoOutcome == [status |-> "none", error |-> "", contents |-> <<>>]

NoRun == [call |-> RootsCall(<<>>), fetchLog |-> <<>>]

VARIABLES onlyAllowPaths, allowPc, allowRoots, pattern, prefixPc, literalPrefix,
          vault, call, pc, q, contents, iterRound, chunks, singleChunk, r, values,
          outcome, fetchLog, issued, run, prev, prevRun

allowVars == <<onlyAllowPaths, allowPc, allowRoots, pattern, prefixPc, literalPrefix>>

listVars == <<vault, call, pc, q, contents, iterRound, chunks, singleChunk, r, values,
              outcome, fetchLog, issued, run, prev, prevRun>>

vars == <<onlyAllowPaths, allowPc, allowRoots, pattern, prefixPc, literalPrefix,
          vault, call, pc, q, contents, iterRound, chunks, singleChunk, r, values,
          outcome, fetchLog, issued, run, prev, prevRun>>

IdlePrefix ==
  /\ pattern = ""
  /\ prefixPc = "idle"
  /\ literalPrefix = ""

IdleLister ==
  /\ pc = "idle"
  /\ q = <<>>
  /\ contents = <<>>
  /\ iterRound = 0
  /\ chunks = <<>>
  /\ singleChunk = <<>>
  /\ r = <<>>
  /\ values = <<>>
  /\ outcome = NoOutcome
  /\ fetchLog = <<>>
  /\ issued = <<>>
  /\ run = 0
  /\ prev = NoOutcome
  /\ prevRun = NoRun

Init ==
  /\ \/ vault \in Vaults /\ call \in Calls
     \/ vault = Vault(FALSE, {}) /\ call \in WideCalls
     \/ vault = LoopVault /\ call \in LoopCalls
  /\ IdleLister
  /\ onlyAllowPaths = [nullish |-> TRUE, items |-> <<>>]
  /\ allowPc = "idle"
  /\ allowRoots = <<>>
  /\ IdlePrefix

\* The vaults with at most one fault, for the runs checked under fairness.
FairVaults == {Vault(nested, F) : nested \in BOOLEAN, F \in FaultSetsUpTo(1)}

InitFair ==
  /\ \/ vault \in FairVaults /\ call \in Calls
     \/ vault = Vault(FALSE, {}) /\ call \in WideCalls
     \/ vault = LoopVault /\ call \in LoopCalls
  /\ IdleLister
  /\ onlyAllowPaths = [nullish |-> TRUE, items |-> <<>>]
  /\ allowPc = "idle"
  /\ allowRoots = <<>>
  /\ IdlePrefix

InitAllow ==
  /\ onlyAllowPaths \in AllowInputs
  /\ allowPc = "call"
  /\ allowRoots = <<>>
  /\ vault = Vault(FALSE, {})
  /\ call = RootsCall(<<>>)
  /\ IdleLister
  /\ IdlePrefix

InitPrefix ==
  /\ pattern \in PrefixInputs
  /\ prefixPc = "call"
  /\ literalPrefix = ""
  /\ onlyAllowPaths = [nullish |-> TRUE, items |-> <<>>]
  /\ allowPc = "idle"
  /\ allowRoots = <<>>
  /\ vault = Vault(FALSE, {})
  /\ call = RootsCall(<<>>)
  /\ IdleLister

(***************************************************************************)
(* The listers, one action per stretch of code between two awaits.         *)
(***************************************************************************)
Goto(pcv, qv, cv, iv, chv, scv, rv, valv, logv, outv, issv) ==
  /\ issued' = issv
  /\ pc' = pcv
  /\ q' = qv
  /\ contents' = cv
  /\ iterRound' = iv
  /\ chunks' = chv
  /\ singleChunk' = scv
  /\ r' = rv
  /\ values' = valv
  /\ fetchLog' = logv
  /\ outcome' = outv

\* singleChunk.map(async ...): every callback runs up to its await of statFix.
\* issv records, per chunk started, its level (the count of drains before it).
StartChunk(c, rest, qv, cv, iv, logv, issv, lv) ==
  Goto("fetching", qv, cv, iv, rest, c,
       [k \in 1..Len(c) |-> AwaitStat], [k \in 1..Len(c) |-> EmptySlot],
       logv \o c, NoOutcome, Append(issv, [level |-> lv, paths |-> c]))

Return(qv, cv, iv, logv, issv) ==
  LET res == IF call.fn = "listFilesInObsFolder"
             THEN postFilter(cv, call.configDir, call.bookmarksOnly)
             ELSE cv
  IN Goto("returned", qv, res, iv, <<>>, <<>>, <<>>, <<>>, logv,
          [status |-> "returned", error |-> "", contents |-> res], issv)

Throw(e) ==
  Goto("thrown", q, contents, iterRound, chunks, singleChunk, <<>>, <<>>, fetchLog,
       [status |-> "thrown", error |-> e, contents |-> <<>>], issued)

\* while (q.length > 0): drain the queue into one level and start its first chunk.
WhileLoop(qv, cv, iv, logv, issv) ==
  IF Len(qv) > 0
  THEN LET itemsToFetchChunks == chunk(qv, CHUNK_SIZE)
           lv == IF issv = <<>> THEN 0 ELSE issv[Len(issv)].level + 1
       IN StartChunk(Head(itemsToFetchChunks), Tail(itemsToFetchChunks), <<>>, cv, iv,
                     logv, issv, lv)
  ELSE Return(qv, cv, iv, logv, issv)

stopsAfterRoundOne(bookmarksOnly, iv) == bookmarksOnly /\ iv > 0

stopsAfterRoundNever(bookmarksOnly, iv) == FALSE

stopsAfterRound(bookmarksOnly, iv) == bookmarksOnly /\ iv > 1

\* The end of the body of the outer while loop.
EndOfLevel(qv, cv, iv, logv, issv) ==
  IF call.fn = "listFilesInObsFolder"
  THEN IF stopsAfterRound(call.bookmarksOnly, iv)
       THEN Return(qv, cv, iv, logv, issv)
       ELSE WhileLoop(qv, cv, iv + 1, logv, issv)
  ELSE WhileLoop(qv, cv, iv, logv, issv)

\* The arguments of a further call on the same vault: the same again, or,
\* after a full configuration listing, the same with bookmarksOnly set.
NextCalls ==
  {call} \cup (IF run > 0 /\ call.fn = "listFilesInObsFolder" /\ ~call.bookmarksOnly
               THEN {[call EXCEPT !.bookmarksOnly = TRUE]}
               ELSE {})

\* The call itself, up to its first await (or its return).
Call ==
  /\ pc \in {"idle", "returned", "thrown"}
  /\ run < MaxRuns
  /\ run' = run + 1
  /\ prev' = outcome
  /\ prevRun' = [call |-> call, fetchLog |-> fetchLog]
  /\ call' \in NextCalls
  /\ IF call.fn = "listFilesInObsFolder"
     THEN WhileLoop(<<call.configDir>>, <<>>, 0, <<>>, <<>>)
     ELSE WhileLoop(uniqueRoots(call.roots), <<>>, 0, <<>>, <<>>)
  /\ UNCHANGED <<vault, allowVars>>

Settle(k, p) ==
  IF p.state = "rejected" THEN Throw(p.error)
  ELSE /\ r' = [r EXCEPT ![k] = p]
       /\ values' = IF p.state = "fulfilled" THEN storeValue(values, k, p.value) ELSE values
       /\ UNCHANGED <<pc, q, contents, iterRound, chunks, singleChunk, fetchLog, outcome,
                      issued>>

\* The statFix of one callback settles and the callback runs to its next await.
StatSettles ==
  /\ pc = "fetching"
  /\ \E k \in 1..Len(singleChunk) :
       /\ r[k].state = "stat"
       /\ LET x == singleChunk[k]
              s == statFix(vault, x)
          IN Settle(k, IF call.fn = "listFilesInObsFolder"
                       THEN configAfterStat(call.configDir, x, s)
                       ELSE rootsAfterStat(x, s))
  /\ UNCHANGED <<vault, call, run, prev, prevRun, allowVars>>

\* The vault.adapter.list of one callback settles and the callback finishes.
ListSettles ==
  /\ pc = "fetching"
  /\ \E k \in 1..Len(singleChunk) :
       /\ r[k].state = "list"
       /\ LET x == singleChunk[k]
              l == adapterList(vault, x)
          IN Settle(k, IF call.fn = "listFilesInObsFolder"
                       THEN configAfterList(call.configDir, x, r[k].statRes, l)
                       ELSE rootsAfterList(x, r[k].statRes, l))
  /\ UNCHANGED <<vault, call, run, prev, prevRun, allowVars>>

\* await Promise.all(r) resumes: merge r2, then the next chunk, level or return.
ChunkResumes ==
  /\ pc = "fetching"
  /\ \A k \in 1..Len(r) : r[k].state = "fulfilled"
  /\ Len(fetchLog) < MaxFetched
  /\ LET r2 == [k \in 1..Len(values) |-> values[k].value]
         m == IF call.fn = "listFilesInObsFolder"
              THEN mergeConfig(r2, [contents |-> contents, q |-> q], call.pluginId)
              ELSE mergeRoots(r2, [contents |-> contents, q |-> q])
     IN IF chunks # <<>>
        THEN StartChunk(Head(chunks), Tail(chunks), m.q, m.contents, iterRound, fetchLog,
                        issued, issued[Len(issued)].level)
        ELSE EndOfLevel(m.q, m.contents, iterRound, fetchLog, issued)
  /\ UNCHANGED <<vault, call, run, prev, prevRun, allowVars>>

Next == Call \/ StatSettles \/ ListSettles \/ ChunkResumes

Spec == Init /\ [][Next]_vars

\* The steps the event loop takes on its own: a fetch settles, or the call
\* resumes after its chunk.  A new call is the caller's step.
Progress == StatSettles \/ ListSettles \/ ChunkResumes

\* While a fetch can settle or the call can resume, one of them happens.
SpecFair == InitFair /\ [][Next]_vars /\ WF_vars(Progress)

CallGetHiddenAllowListRoots ==
  /\ allowPc = "call"
  /\ allowRoots' = getHiddenAllowListRoots(onlyAllowPaths)
  /\ allowPc' = "returned"
  /\ UNCHANGED <<onlyAllowPaths, pattern, prefixPc, literalPrefix, listVars>>

NextAllow == CallGetHiddenAllowListRoots

SpecAllow == InitAllow /\ [][NextAllow]_vars

CallExtractLiteralPrefix ==
  /\ prefixPc = "call"
  /\ literalPrefix' = extractLiteralPrefix(pattern)
  /\ prefixPc' = "returned"
  /\ UNCHANGED <<pattern, onlyAllowPaths, allowPc, allowRoots, listVars>>

NextPrefix == CallExtractLiteralPrefix

SpecPrefix == InitPrefix /\ [][NextPrefix]_vars

(***************************************************************************)
(* Claims about the resolver.                                              *)
(***************************************************************************)
AllowItems == IF onlyAllowPaths.nullish THEN <<>> ELSE onlyAllowPaths.items

\* Hidden, as the claim words it: starts with "." or some "/" is followed by ".".
HiddenAsStated(p) == startsWith(p, ".") \/ includes(p, "/.")

ExpectedRootSet ==
  {extractLiteralPrefix(AllowItems[k]) : k \in
     {j \in 1..Len(AllowItems) :
        /\ trim(AllowItems[j]) # ""
        /\ Len(extractLiteralPrefix(AllowItems[j])) > 1
        /\ HiddenAsStated(extractLiteralPrefix(AllowItems[j]))}}

\* C8: getHiddenAllowListRoots returns, for any pattern list (also undefined),
\* exactly the duplicate-free set of the literal prefixes of the non-blank
\* patterns whose prefix is longer than 1 and hidden; ["^\\.foo/bar.*"] yields
\* {".foo/bar"} and ["plainname"] yields the empty set.
C8_AllowListRoots ==
  allowPc = "returned" =>
    /\ {allowRoots[k] : k \in 1..Len(allowRoots)} = ExpectedRootSet
    /\ \A j, k \in 1..Len(allowRoots) : allowRoots[j] = allowRoots[k] => j = k
    /\ (AllowItems = <<"^\\.foo/bar.*">> => allowRoots = <<".foo/bar">>)
    /\ (AllowItems = <<"plainname">> => allowRoots = <<>>)

C8_Witness ==
  /\ allowPc = "returned"
  /\ AllowItems = <<"foo/\\.bar", "^\\.foo/bar.*">>
  /\ allowRoots = <<"foo/.bar", ".foo/bar">>

\* C9 as stated: getHiddenAllowListRoots([".x"]) yields the empty set.
C9_Original ==
  (allowPc = "returned" /\ AllowItems = <<".x">>) => allowRoots = <<>>

\* C9 amended: getHiddenAllowListRoots([".x"]) yields {".x"} (the prefix ".x"
\* has length 2, which passes the length > 1 rule); only a one-character
\* prefix such as that of ["."] is excluded by the rule.
C9_DotX ==
  /\ (allowPc = "returned" /\ AllowItems = <<".x">>) => allowRoots = <<".x">>
  /\ (allowPc = "returned" /\ AllowItems = <<".">>) => allowRoots = <<>>

C9_Witness ==
  /\ allowPc = "returned"
  /\ AllowItems = <<".x">>
  /\ allowRoots = <<".x">>

(***************************************************************************)
(* Claims about the listers.                                               *)
(***************************************************************************)
IsConfig == call.fn = "listFilesInObsFolder"

IsRoots == call.fn = "listFilesByAdapterPaths"

\* The paths whose fetch the current call has issued.
Logged == {fetchLog[k] : k \in 1..Len(fetchLog)}

Listed == {contents[k] : k \in 1..Len(contents)}

IsFolderAt(x) == statFix(vault, x).kind = "value" /\ statFix(vault, x).type = "folder"

IsFileAt(x) == statFix(vault, x).kind = "value" /\ statFix(vault, x).type = "file"

UnusableMtime(m) == m \in {MtimeUndefined, MtimeNull, Num(0)}

\* C1 as stated, for vaults whose child listings all succeed:
\* listFilesByAdapterPaths never fails, whatever the metadata fetches return.
C1_Original ==
  (IsRoots /\ \A x \in Logged : IsFolderAt(x) => adapterList(vault, x).kind = "value")
    => pc # "thrown"

\* C2: listFilesInObsFolder is all-or-nothing: once the metadata fetch of a
\* fetched path is null the call never returns a list, and a failed call
\* yields no entities, whatever earlier chunks and levels collected.
C2_AllOrNothing ==
  IsConfig =>
    /\ (\E x \in Logged : statFix(vault, x).kind = "null") => pc # "returned"
    /\ pc = "thrown" => (outcome.status = "thrown" /\ outcome.contents = <<>>)
    /\ pc = "returned" => \A x \in Logged : statFix(vault, x).kind = "value"

C2_Witness ==
  /\ IsConfig
  /\ pc = "thrown"
  /\ outcome.error = "something goes wrong while listing hidden folder"
  /\ Len(contents) >= 2
  /\ outcome.contents = <<>>

\* The conditions under which a callback of listFilesInObsFolder rejects.
FatalAt(x) ==
  \/ statFix(vault, x).kind # "value"
  \/ IsFolderAt(x) /\ adapterList(vault, x).kind = "throws"
  \/ IsFileAt(x) /\ UnusableMtime(statFix(vault, x).mtime)

\* C3: in listFilesInObsFolder a fetched file whose modification time is
\* missing, null or zero fails the whole call, a folder with such a time does
\* not (a failed call always has a fetched path that is fatal for another
\* reason), and every file entity of a returned list has a non-zero time.
C3_FileMtime ==
  IsConfig =>
    /\ (\E x \in Logged : IsFileAt(x) /\ UnusableMtime(statFix(vault, x).mtime))
         => pc # "returned"
    /\ pc = "thrown" => \E x \in Logged : FatalAt(x)
    /\ pc = "returned" =>
         \A e \in Listed : (\E x \in Logged : IsFileAt(x) /\ e.key = x)
                              => (e.mtimeCli.tag = "number" /\ e.mtimeCli.n # 0)

C3_Witness ==
  /\ IsConfig
  /\ pc = "thrown"
  /\ outcome.error = mtimeError(".o", ".o/bookmarks.json")
  /\ Len(contents) = 1
  /\ contents[1].key = ".o/"
  /\ contents[1].mtimeCli = Num(0)

\* C4: a successful listFilesInObsFolder(R, vault, pluginId, true) returns at
\* most two entities, each with key R/ or R/bookmarks.json, each at most once.
C4_BookmarksOnly ==
  (IsConfig /\ call.bookmarksOnly /\ pc = "returned") =>
    /\ Len(contents) <= 2
    /\ \A e \in Listed :
         e.key = call.configDir \o "/" \/ e.key = call.configDir \o "/bookmarks.json"
    /\ \A j, k \in 1..Len(contents) : contents[j].key = contents[k].key => j = k

C4_Witness ==
  /\ IsConfig
  /\ call.bookmarksOnly
  /\ pc = "returned"
  /\ Len(contents) = 2
  /\ Len(fetchLog) > 4

stripSlash(k) == IF endsWith(k, "/") THEN SubSeq(k, 1, Len(k) - 1) ELSE k

IsReservedKey(k) ==
  \E n \in {"workspace", "workspace.json"} :
    stripSlash(k) = n \/ endsWith(stripSlash(k), "/" \o n)

\* C5 as stated: no entity of a list returned by listFilesInObsFolder has a
\* key that is, or ends with, /workspace or /workspace.json.
C5_Original ==
  (IsConfig /\ pc = "returned") => \A e \in Listed : ~IsReservedKey(e.key)

\* C5 amended: no entity other than that of the config root itself has such a
\* key (the root is fetched and listed unconditionally).
C5_ReservedNames ==
  (IsConfig /\ pc = "returned") =>
    \A e \in Listed :
      IsReservedKey(e.key) => e.key \in {call.configDir, call.configDir \o "/"}

C5_Witness ==
  /\ IsConfig
  /\ pc = "returned"
  /\ ~call.bookmarksOnly
  /\ \E e \in Listed : e.key = ".o/p/d/f"
  /\ ".o/workspace" \in {vault.list[".o"].folders[k] : k \in 1..Len(vault.list[".o"].folders)}
  /\ ".o/p/workspace.json" \in {vault.list[".o/p"].files[k] : k \in 1..Len(vault.list[".o/p"].files)}

InsidePluginDir(k, pluginId) ==
  \/ startsWith(stripSlash(k), pluginId \o "/")
  \/ includes(stripSlash(k), "/" \o pluginId \o "/")

IsKnownSubFile(k, pluginId) ==
  \E n \in {reqFiles[j] : j \in 1..Len(reqFiles)} :
    \/ stripSlash(k) = pluginId \o "/" \o n
    \/ endsWith(stripSlash(k), "/" \o pluginId \o "/" \o n)

\* C6 as stated: an entity for a path under a directory named pluginId is
\* in the output only if it is one of the known sub-files of that directory;
\* nothing deeper inside the plugin directory is listed.
C6_Original ==
  (IsConfig /\ pc = "returned") =>
    \A e \in Listed :
      InsidePluginDir(e.key, call.pluginId) => IsKnownSubFile(e.key, call.pluginId)

C10_Deterministic ==
  /\ (run >= 2 /\ prevRun.call = call /\ pc \in {"returned", "thrown"}) =>
       /\ outcome.status = prev.status
       /\ outcome.contents = prev.contents
  /\ pc = "fetching" =>
       \A k \in 1..Len(values) : values[k].set => values[k].value = r[k].value

C10_Witness ==
  /\ run = 2
  /\ prevRun.call = call
  /\ pc = "returned"
  /\ Len(contents) >= 6
  /\ prev.contents = contents

(***************************************************************************)
(* Claims about chunks, rounds and levels.                                 *)
(***************************************************************************)
InFlight == {k \in 1..Len(r) : r[k].state \in {"stat", "list"}}

ChunkSizes == [i \in 1..Len(issued) |-> Len(issued[i].paths)]

\* The paths fetched at level n, in the order of their fetches.
RECURSIVE PathsFrom(_, _, _)
PathsFrom(iss, i, n) ==
  IF i > Len(iss) THEN <<>>
  ELSE (IF iss[i].level = n THEN iss[i].paths ELSE <<>>) \o PathsFrom(iss, i + 1, n)

LevelPaths(n) == PathsFrom(issued, 1, n)

GroupsWellFormed ==
  /\ Cardinality(InFlight) <= 10
  /\ \A i \in 1..Len(issued) : ChunkSizes[i] >= 1 /\ ChunkSizes[i] <= 10
  /\ \A i \in 1..(Len(issued) - 1) :
       issued[i].level = issued[i + 1].level => ChunkSizes[i] = 10
  /\ (pc = "returned" /\ Len(LevelPaths(1)) = 21) =>
       [i \in 1..3 |-> ChunkSizes[i + 1]] = <<10, 10, 1>>

GroupStartsAfterPrevious ==
  (issued' # issued /\ pc = "fetching") => \A k \in 1..Len(r) : r[k].state = "fulfilled"

\* C11: the paths of a level are fetched in consecutive groups of at most 10,
\* every group but the last of a level of exactly 10 (21 paths: 10, 10, 1); a
\* group is started only when every fetch of the previous one has completed,
\* so at most 10 fetches are in flight.
C11_BoundedParallelism == [](GroupsWellFormed) /\ [][GroupStartsAfterPrevious]_vars

C11_Witness ==
  /\ pc = "returned"
  /\ call = RootsCall(<<"w">>)
  /\ ChunkSizes = <<1, 10, 10, 1>>
  /\ Len(contents) = 22

\* C12 as stated: with bookmarksOnly only rounds 0 and 1 are fetched.
C12_Original ==
  (IsConfig /\ call.bookmarksOnly) => \A i \in 1..Len(issued) : issued[i].level <= 1

\* C12 amended: with bookmarksOnly the traversal stops after completing rounds
\* 0, 1 and 2 (the test iterRound > 1 precedes the increment): the root, its
\* children and its grandchildren are fetched, and no path first enqueued
\* during round 2 is fetched, even if the queue is non-empty.
C12_EarlyStop ==
  (IsConfig /\ call.bookmarksOnly) =>
    /\ \A i \in 1..Len(issued) : issued[i].level <= 2
    /\ pc = "returned" =>
         /\ iterRound <= 2
         /\ q # <<>> => (iterRound = 2 /\ issued[Len(issued)].level = 2)
         /\ \A k \in 1..Len(q) : q[k] \notin Logged

C12_Witness ==
  /\ IsConfig
  /\ call.bookmarksOnly
  /\ pc = "returned"
  /\ q = <<".o/p/d/f">>
  /\ LevelPaths(2) = <<".o/p/d", ".o/rs/data.json">>

\* C13 as stated: every file entity returned by listFilesByAdapterPaths has a
\* present, non-zero modification time (files without one are dropped).
C13_Original ==
  (IsRoots /\ pc = "returned") =>
    \A e \in Listed : (\E x \in Logged : IsFileAt(x) /\ e.key = x)
                         => (e.mtimeCli.tag = "number" /\ e.mtimeCli.n # 0)

\* The conditions under which a callback of listFilesByAdapterPaths rejects.
RootsFatalAt(x) ==
  \/ statFix(vault, x).kind = "null"
  \/ IsFolderAt(x) /\ adapterList(vault, x).kind = "throws"

\* C13 amended: in listFilesByAdapterPaths a file whose modification time is
\* zero or missing does not fail the call (a call fails only on a null
\* metadata result or a failed child listing) and is not dropped: its entity
\* is in the output with the modification time as fetched.
C13_RootsKeepMtime ==
  IsRoots =>
    /\ pc = "thrown" => \E x \in Logged : RootsFatalAt(x)
    /\ pc = "returned" =>
         \A x \in Logged : IsFileAt(x) =>
           \E e \in Listed : e.key = x /\ e.mtimeCli = statFix(vault, x).mtime

C13_Witness ==
  /\ IsRoots
  /\ pc = "returned"
  /\ \E e \in Listed : e.key = ".o/bookmarks.json" /\ e.mtimeCli = Num(0)

HasNoDuplicates(xs) == \A j, k \in 1..Len(xs) : xs[j] = xs[k] => j = k

\* C14 as stated: the initial queue of listFilesByAdapterPaths holds each
\* distinct trimmed non-blank root once, so no root is fetched twice.
C14_Original ==
  IsRoots =>
    /\ HasNoDuplicates(LevelPaths(0))
    /\ \A k \in 1..Len(LevelPaths(0)) :
         LevelPaths(0)[k] # "" /\ trim(LevelPaths(0)[k]) = LevelPaths(0)[k]

\* C15 as stated, for vaults without a null metadata result: a failed child
\* listing in listFilesByAdapterPaths drops the item and the call goes on.
C15_Original ==
  (IsRoots /\ \A x \in Logged : statFix(vault, x).kind # "null") => pc # "thrown"

\* The children of x that a merge queues, from the vault alone.
QueuedChildren(x) ==
  LET s == statFix(vault, x)
      l == adapterList(vault, x)
      inPlugin == isPluginDirItself(x \o "/", call.pluginId)
      Passes(n) == /\ ~isSpecialFolderNameToSkip(n, <<"workspace", "workspace.json">>)
                   /\ (inPlugin => isLikelyPluginSubFiles(n))
  IN IF s.kind = "value" /\ s.type = "folder" /\ l.kind = "value"
     THEN IF IsConfig THEN SelectSeq(l.folders, Passes) \o SelectSeq(l.files, Passes)
          ELSE l.folders \o l.files
     ELSE <<>>

RECURSIVE QueuedBy(_)
QueuedBy(paths) ==
  IF paths = <<>> THEN <<>> ELSE QueuedChildren(Head(paths)) \o QueuedBy(Tail(paths))

RECURSIVE KeysOf(_)
KeysOf(paths) ==
  IF paths = <<>> THEN <<>>
  ELSE (IF statFix(vault, Head(paths)).kind = "value"
        THEN <<IF IsFolderAt(Head(paths)) THEN Head(paths) \o "/" ELSE Head(paths)>>
        ELSE <<>>) \o KeysOf(Tail(paths))

IsPrefixOf(xs, ys) == Len(xs) <= Len(ys) /\ xs = SubSeq(ys, 1, Len(xs))

LastLevel == IF issued = <<>> THEN 0 ELSE issued[Len(issued)].level

\* The fetches whose results have been merged into contents and q.
Merged == SubSeq(fetchLog, 1, Len(fetchLog) - Len(singleChunk))

LevelsInOrder ==
  /\ issued # <<>> => issued[1].level = 0
  /\ \A i \in 1..(Len(issued) - 1) :
       issued[i + 1].level \in {issued[i].level, issued[i].level + 1}
  /\ \A n \in 1..LastLevel :
       /\ IsPrefixOf(LevelPaths(n), QueuedBy(LevelPaths(n - 1)))
       /\ n < LastLevel => LevelPaths(n) = QueuedBy(LevelPaths(n - 1))
  /\ (pc = "fetching" \/ (pc = "returned" /\ ~call.bookmarksOnly)) =>
       [k \in 1..Len(contents) |-> contents[k].key] = KeysOf(Merged)

LevelStartsAfterPrevious ==
  (issued' # issued /\ pc = "fetching" /\ issued'[Len(issued')].level > LastLevel)
    => (chunks = <<>> /\ \A k \in 1..Len(r) : r[k].state = "fulfilled")

\* C16: both listers go level by level: a level consists of exactly the
\* children queued by the previous level, in the order queued, and is started
\* only when every fetch of the previous level is fulfilled; before the
\* bookmarks filter the output lists the fetched paths in that order.
C16_BreadthFirst == [](LevelsInOrder) /\ [][LevelStartsAfterPrevious]_vars

C16_Witness ==
  /\ pc = "returned"
  /\ call = RootsCall(<<".o/rs", ".o/p">>)
  /\ LevelPaths(1) = <<".o/rs/data.json", ".o/rs/secret.db", ".o/p/d", ".o/p/workspace.json">>
  /\ LevelPaths(2) = <<".o/p/d/f">>
  /\ Len(contents) = 7

ElementsOf(xs) == {xs[k] : k \in 1..Len(xs)}

ReachedClosed ==
  /\ ElementsOf(uniqueRoots(call.roots)) \subseteq Logged
  /\ \A x \in Logged :
       (IsFolderAt(x) /\ adapterList(vault, x).kind = "value") =>
         ElementsOf(adapterList(vault, x).folders \o adapterList(vault, x).files) \subseteq Logged

\* C17 as stated: a successful listFilesByAdapterPaths lists an entity for
\* every path reachable from a root through the child listings.
C17_Original ==
  (IsRoots /\ pc = "returned") =>
    /\ ReachedClosed
    /\ \A x \in Logged : \E e \in Listed : stripSlash(e.key) = stripSlash(x)

\* C17 amended: no filtering is applied: every child listed by a successfully
\* fetched folder is fetched, reserved names and plugin files included, and
\* the output holds an entity for every reached path whose metadata fetch did
\* not fail (a path whose fetch throws is dropped, with all below it); the
\* number of entities is the number of successfully fetched queue entries.
C17_Complete ==
  (IsRoots /\ pc = "returned") =>
    /\ ReachedClosed
    /\ \A x \in Logged : statFix(vault, x).kind = "value" =>
         \E e \in Listed : e.key = (IF IsFolderAt(x) THEN x \o "/" ELSE x)
    /\ Len(contents) = Cardinality({k \in 1..Len(fetchLog) : statFix(vault, fetchLog[k]).kind = "value"})

C17_Witness ==
  /\ pc = "returned"
  /\ call = RootsCall(<<".o">>)
  /\ \E x \in Logged : statFix(vault, x).kind = "throws"
  /\ {".o/workspace/", ".o/rs/secret.db", ".o/bookmarks.json"}
       \subseteq {e.key : e \in Listed}

\* C20: when the full listing of a config root succeeds, the bookmarksOnly
\* listing on the same vault succeeds too, fetches a prefix of the same
\* sequence of paths and returns exactly the entities of the full result, for
\* the paths it fetched, whose key is root/ or root/bookmarks.json.
C20_BookmarksRefines ==
  (/\ run >= 2
   /\ IsConfig
   /\ call.bookmarksOnly
   /\ prevRun.call = [call EXCEPT !.bookmarksOnly = FALSE]
   /\ prev.status = "returned") =>
     /\ pc # "thrown"
     /\ IsPrefixOf(fetchLog, prevRun.fetchLog)
     /\ pc = "returned" =>
          LET Wanted(e) == \/ e.key = call.configDir \o "/"
                           \/ e.key = call.configDir \o "/bookmarks.json"
          IN contents = SelectSeq(SubSeq(prev.contents, 1, Len(fetchLog)), Wanted)

C20_Witness ==
  /\ run = 2
  /\ IsConfig
  /\ call.bookmarksOnly
  /\ ~prevRun.call.bookmarksOnly
  /\ prev.status = "returned"
  /\ pc = "returned"
  /\ Len(contents) = 2
  /\ Len(fetchLog) < Len(prevRun.fetchLog)

(***************************************************************************)
(* Claims about the literal-prefix scanner and about termination.          *)
(***************************************************************************)
MetaChars == {".", "+", "*", "?", "^", "$", "(", ")", "[", "]", "{", "}", "|", "\\"}

\* The pattern trimmed, without one leading ^ and then one leading ./
Stripped(p) ==
  LET t == trim(p)
      a == IF Len(t) >= 1 /\ SubSeq(t, 1, 1) = "^" THEN SubSeq(t, 2, Len(t)) ELSE t
  IN IF Len(a) >= 2 /\ SubSeq(a, 1, 2) = "./" THEN SubSeq(a, 3, Len(a)) ELSE a

\* Positions are counted from 1; the scan starts after the leading dot.
LeadLen(s) ==
  IF Len(s) >= 2 /\ SubSeq(s, 1, 2) = "\\." THEN 2
  ELSE IF Len(s) >= 1 /\ SubSeq(s, 1, 1) = "." THEN 1 ELSE 0

\* The number of consecutive backslashes that end just before position i.
RECURSIVE BackslashesBefore(_, _, _)
BackslashesBefore(s, i, first) ==
  IF i - 1 >= first /\ SubSeq(s, i - 1, i - 1) = "\\"
  THEN 1 + BackslashesBefore(s, i - 1, first)
  ELSE 0

IsEscapedAt(s, i) == BackslashesBefore(s, i, LeadLen(s) + 1) % 2 = 1

EndsScanAt(s, i) ==
  /\ ~IsEscapedAt(s, i)
  /\ SubSeq(s, i, i) # "\\"
  /\ SubSeq(s, i, i) \in MetaChars

ScanEnd(s) ==
  LET stops == {i \in (LeadLen(s) + 1)..Len(s) : EndsScanAt(s, i)}
  IN IF stops = {} THEN Len(s) + 1 ELSE CHOOSE i \in stops : \A j \in stops : i <= j

RECURSIVE EmittedFrom(_, _)
EmittedFrom(s, i) ==
  IF i >= ScanEnd(s) THEN ""
  ELSE (IF IsEscapedAt(s, i) \/ SubSeq(s, i, i) # "\\" THEN SubSeq(s, i, i) ELSE "")
         \o EmittedFrom(s, i + 1)

ExpectedPrefix(p) ==
  LET s == Stripped(p) IN
  (IF LeadLen(s) > 0 THEN "." ELSE "") \o EmittedFrom(s, LeadLen(s) + 1)

\* C18: extractLiteralPrefix returns, for every input: a literal "." for a
\* leading \. or bare . of the trimmed pattern without one leading ^ and one
\* leading ./, followed by the characters up to the first unescaped
\* metacharacter, where an unescaped backslash is dropped and the character
\* after it is kept even if it is a metacharacter.
C18_LiteralPrefix ==
  prefixPc = "returned" =>
    /\ literalPrefix = ExpectedPrefix(pattern)
    /\ Len(literalPrefix) <= Len(pattern)

C18_Witness ==
  /\ prefixPc = "returned"
  /\ pattern = "^\\.x\\*y[0-9]"
  /\ literalPrefix = ".x*y"

\* C19: a call that awaits fetches eventually returns or fails, on every
\* vault without a loop in its child listings, and with bookmarksOnly on a
\* vault with such a loop as well (it stops after round 2).
C19_Terminates ==
  /\ (pc = "fetching" /\ (~vault.looping \/ (IsConfig /\ call.bookmarksOnly)))
       ~> (pc \in {"returned", "thrown"})
  /\ [](IsConfig /\ call.bookmarksOnly => iterRound <= 2)

C19_Witness ==
  /\ pc = "returned"
  /\ vault.looping
  /\ IsConfig
  /\ call.bookmarksOnly
  /\ fetchLog = <<"c", "c/l", "c/bookmarks.json", "c/l/l", "c/l/bookmarks.json">>
  /\ q = <<"c/l/l/l", "c/l/l/bookmarks.json">>

====
